---------------------------- MODULE Spec2Model ----------------------------
(***************************************************************************)
(* LZW compression and decompression of emacs-lzw (src/src/lzw.c).         *)
(*                                                                         *)
(* lzw_compress scans a byte buffer with a trie dictionary and writes      *)
(* codewords to dest; lzw_decompress reads a codeword stream with an       *)
(* indexed dictionary (dict, dict_lens) and writes bytes to dest.          *)
(*                                                                         *)
(* C arrays are modelled as functions whose DOMAIN is the set of indices   *)
(* that have been written: an index outside the domain is uninitialised    *)
(* (or out of bounds) memory.  A byte string with its explicit length is   *)
(* a sequence of bytes.                                                    *)
(*                                                                         *)
(* Undefined behaviour (a read through a pointer or of a length that was   *)
(* never written, a write past the end of dest) takes the call to the      *)
(* position "undefined".  From there the program text determines nothing:  *)
(* the position stands for every outcome a build can produce, among them   *)
(* a crash at the access, an abort in a later free(), and a normal return  *)
(* with bytes and a count that depend on what the memory happened to hold. *)
(* No value is chosen for them here.                                       *)
(*                                                                         *)
(* The trie (trie.c) is not among the sources and src/trie.h does not      *)
(* match the calls lzw.c makes, so the trie is modelled from the           *)
(* specification: insert and lookup of section 4.1, the codeword layout    *)
(* of sections 3, 4.2 and 6 (the byte x has codeword x, 256 is never       *)
(* given out, the first dynamic entry gets 257), and the lookup result 0   *)
(* for an absent string (sections 3 and 9, tested at lzw.c:61).  lzw.c     *)
(* hands trie_put no codeword (lines 47, 64), so the counter of section    *)
(* 4.2 is kept with the trie.                                              *)
(*                                                                         *)
(* The working buffers substr and substr_ch hold BUF_SIZE = 32768 bytes    *)
(* (lzw.c:36); candidates of that length need inputs far beyond the        *)
(* bounds explored here, so the buffers are modelled without a capacity.   *)
(***************************************************************************)
EXTENDS Integers, Sequences, FiniteSets, TLC

(* ------------------------------ bounds -------------------------------- *)

\* Longest input buffer handed to lzw_compress.
MaxLen == 5

\* Most content codewords in a freely chosen stream handed to lzw_decompress.
MaxStream == 3

\* Content codewords of the long stream that drives the dictionary through
\* its second doubling.
LongCount == 259

\* Input bytes explored: 0 (the NUL byte), a letter, and the largest byte.
Bytes == {0, 97, 255}

\* Codewords explored in freely chosen streams: the unassigned slot 0, seed
\* codewords (byte 0, the letter, byte 255), the first dynamic codewords and
\* one that skips far ahead.
StreamCodes == {0, 1, 98, 256, 257, 258, 300}

\* Length codewords explored in freely chosen streams: too small for any
\* second write, too small for the longer outputs, and large enough.
StreamHeaders == {0, 3, 12}

\* sizeof(unsigned int), the element size of dict_lens.
UIntSize == 4

VARIABLES
    pc,         \* position: "c_scan", "d_start", "d_loop", "d_done", "undefined"
    \* lzw_compress
    c_src,      \* src: the input bytes
    c_len,      \* len
    c_dict,     \* dict: the trie
    substr,     \* substr[0 .. substr_len-1]
    c_i,        \* i
    c_di,       \* di
    c_dest,     \* dest: the codewords written, by index
    put_log,    \* the trie_put calls of the scan loop: <<string, codeword>>
    emit_log,   \* the dest[di] writes of lzw_compress: string looked up, result
    \* lzw_decompress
    d_src,      \* src: the codeword stream, by index
    d_len,      \* len
    dict_size,
    dict_next,
    dict,       \* dict: the entries whose pointer has been assigned
    dict_lens,  \* dict_lens: the lengths that have been written
    cw_prev,
    cw_enc,
    substr_ch,  \* substr_ch[0 .. substr_ch_len-1]
    d_i,        \* i
    d_di,       \* di
    d_dest,     \* dest: the bytes written so far
    dest_len,
    dlen,       \* m.dlen, the returned byte count (-1 until the return)
    rd_log      \* the last step of lzw_decompress: its branch, the codeword
                \* and dict_next it compared, the dict indices it read and
                \* whether all of them were assigned

cvars == <<c_src, c_len, c_dict, substr, c_i, c_di, c_dest, put_log, emit_log>>
dvars == <<d_src, d_len, dict_size, dict_next, dict, dict_lens, cw_prev,
           cw_enc, substr_ch, d_i, d_di, d_dest, dest_len, dlen, rd_log>>
vars == <<pc, cvars, dvars>>

(* ------------------------------ helpers ------------------------------- *)

\* All sequences over S of length at most n.
SeqsUpTo(S, n) == UNION {[1..k -> S] : k \in 0..n}

\* A C array a after a[k] = v.
Store(a, k, v) == (k :> v) @@ a

\* The empty array: nothing written yet.
NoArray == [j \in {} |-> 0]

(* ------------------------------- trie --------------------------------- *)

\* Sections 3, 4.2 and 6: codewords are given out in the order 0, 1, ...,
\* 255, 257, 258, ...; 256 is reserved and never given to an entry.
NextCodeword(n) == IF n + 1 = 256 THEN 257 ELSE n + 1

\* Section 4.1, init(): a trie with no entries.  The counter of the next
\* codeword starts at that of the first seed entry.
trie_init == [codes |-> [s \in {} |-> 0], next_codeword |-> 0]

\* Section 4.1, lookup(bytes, length): the codeword of w[0..len-1] when the
\* string is present.  The result for an absent string is 0 (sections 3
\* and 9), the value lzw.c:61 tests for; it is also the codeword of the
\* byte 0.
trie_get(t, w, len) ==
    LET s == SubSeq(w, 1, len)
    IN  IF s \in DOMAIN t.codes THEN t.codes[s] ELSE 0

\* Section 4.1, insert(bytes, length, codeword): adds the mapping from s to
\* cw; a string already present keeps its codeword.
trie_insert(codes, s, cw) ==
    IF s \in DOMAIN codes THEN codes ELSE (s :> cw) @@ codes

\* trie_put(t, w, len) as lzw.c calls it: insert under the next-available
\* codeword, and the counter moves on (section 4.2, step 3).
trie_put(t, w, len) ==
    [codes |-> trie_insert(t.codes, SubSeq(w, 1, len), t.next_codeword),
     next_codeword |-> NextCodeword(t.next_codeword)]

\* trie_destroy(t): every node released; nothing of the trie is left.
trie_destroy(t) == [codes |-> [s \in {} |-> 0], next_codeword |-> 0]

(* ---------------------------- lzw_compress ---------------------------- *)

\* trie_put of the one-byte strings lo, lo+1, ..., hi, in that order.  The
\* range is halved and the first half is evaluated before the second is
\* entered, which keeps the evaluation shallow.
RECURSIVE PutBytes(_, _, _)
PutBytes(t, lo, hi) ==
    IF lo > hi THEN t
    ELSE IF lo = hi THEN trie_put(t, <<lo>>, 1)
    ELSE LET mid == (lo + hi) \div 2
         IN  CHOOSE r \in {PutBytes(a, mid + 1, hi) :
                              a \in {PutBytes(t, lo, mid)}} : TRUE

\* The do-while of lines 45-49: trie_put of the one-byte string c for
\* c = 0, 1, ..., 255; c is an unsigned char, so c++ wraps to 0 after 255
\* and ends the loop.
SeedTrie(t) == PutBytes(t, 0, 255)

\* The dictionary lzw_compress starts its scan with.
InitialTrie == SeedTrie(trie_init)

\* Line 62: on a miss the codeword written is that of the candidate without
\* the byte just appended.
MissCode(t, s) == trie_get(t, s, Len(s) - 1)

\* Line 70: the codeword written after the scan is that of the candidate
\* that remains.
LastCode(t, s) == trie_get(t, s, Len(s))

\* One iteration of the for loop, lines 57-68.
CompressStep ==
    /\ pc = "c_scan"
    /\ c_i < c_len
    /\ LET c == c_src[c_i + 1]
           s == Append(substr, c)
       IN  IF trie_get(c_dict, s, Len(s)) = 0
           THEN /\ c_dest' = Store(c_dest, c_di, MissCode(c_dict, s))
                /\ emit_log' = Append(emit_log,
                       [str   |-> SubSeq(s, 1, Len(s) - 1),
                        cw    |-> MissCode(c_dict, s),
                        found |-> SubSeq(s, 1, Len(s) - 1) \in DOMAIN c_dict.codes])
                /\ c_di' = c_di + 1
                /\ c_dict' = trie_put(c_dict, s, Len(s))
                /\ put_log' = Append(put_log,
                       [str |-> s, cw |-> trie_get(c_dict', s, Len(s))])
                /\ substr' = <<c>>
           ELSE /\ substr' = s
                /\ UNCHANGED <<c_dest, emit_log, c_di, c_dict, put_log>>
    /\ c_i' = c_i + 1
    /\ UNCHANGED <<pc, c_src, c_len, dvars>>

\* Lines 69-76 once the loop is over: the last codeword, dest[0] = len, and
\* the return of di.  The stream and the count then go to lzw_decompress.
CompressLast ==
    /\ pc = "c_scan"
    /\ c_i >= c_len
    /\ c_dest' = Store(Store(c_dest, c_di, LastCode(c_dict, substr)), 0, c_len)
    /\ emit_log' = Append(emit_log,
           [str   |-> substr,
            cw    |-> LastCode(c_dict, substr),
            found |-> substr \in DOMAIN c_dict.codes])
    /\ c_di' = c_di + 1
    /\ d_src' = c_dest'
    /\ d_len' = c_di'
    /\ c_dict' = trie_destroy(c_dict)
    /\ pc' = "d_start"
    /\ UNCHANGED <<c_src, c_len, substr, c_i, put_log>>
    /\ UNCHANGED <<dict_size, dict_next, dict, dict_lens, cw_prev, cw_enc,
                   substr_ch, d_i, d_di, d_dest, dest_len, dlen, rd_log>>

(* --------------------------- lzw_decompress --------------------------- *)

\* Lines 91-97: dict[c] is the one-byte string c-1 for c = 1..256; slot 0
\* of the malloc'ed arrays is never written.
SeedDict == [c \in 1..256 |-> <<(c - 1) % 256>>]
SeedLens == [c \in 1..256 |-> 1]

\* memcpy(.., dict[c], dict_lens[c]): what the copy reads.  An assigned
\* entry yields its bytes.  Any other slot is read uninitialised, def =
\* FALSE: the pointer dict[c] is loaded and handed to memcpy whatever the
\* length is, so a slot whose length the memset of line 159 zeroed but
\* whose pointer was never assigned is no exception.
EntryRead(d, dl, c) ==
    IF c \in DOMAIN d
    THEN [def |-> TRUE, str |-> SubSeq(d[c], 1, dl[c])]
    ELSE [def |-> FALSE, str |-> <<>>]

\* memcpy(dest + di, .., n): the n bytes fit in the dest_len bytes malloc'ed
\* for dest.
Fits(di, n, cap) == di + n <= cap

\* Line 124: the codeword is in the dictionary.
IsKnown(cw, next) == cw < next

\* Lines 132-135: the next entry is dict[cw_prev] followed by dict[cw][0].
KnownEntry(p, b) == Append(p, b)

\* Mutant: the capacity test is off by one and misses the full table.
NeedsGrowLate(next, size) == next > size

\* Line 149: there is no more space in the dictionary.
NeedsGrow(next, size) == next = size

\* Lines 153-154: realloc keeps every entry of the old arrays.
GrownDict(d) == d

\* Line 159: memset(dict_lens + from, 0, nbytes) zeroes nbytes BYTES, that
\* is only the first nbytes / sizeof(unsigned int) whole elements from
\* index from; the elements after them stay uninitialised.
ZeroLens(dl, from, nbytes) ==
    LET last == from + (nbytes \div UIntSize) - 1
    IN  [j \in from..last |-> 0] @@ dl

\* The call has read memory it never wrote, or written past dest: what it
\* does from here on is not determined by the program.
Undefined(log) ==
    /\ pc' = "undefined"
    /\ rd_log' = log
    /\ UNCHANGED <<cvars, d_src, d_len, dict_size, dict_next, dict, dict_lens,
                   cw_prev, cw_enc, substr_ch, d_i, d_di, d_dest, dest_len, dlen>>

\* Lines 81-121: the dictionary is seeded, dest is sized from src[0], and
\* the first content codeword src[1] is translated.
DecStart ==
    /\ pc = "d_start"
    /\ LET first == d_src[1]
           log   == [branch |-> "first", cw |-> first, next |-> 257,
                     reads |-> {first}, assigned |-> first \in DOMAIN SeedDict]
           e     == EntryRead(SeedDict, SeedLens, first)
       IN  IF ~e.def \/ ~Fits(0, Len(e.str), d_src[0] + 1)
           THEN Undefined(log)
           ELSE /\ dict_size' = 256 + 1
                /\ dict_next' = 256 + 1
                /\ dict' = SeedDict
                /\ dict_lens' = SeedLens
                /\ dest_len' = d_src[0] + 1
                /\ cw_prev' = first
                /\ d_i' = 2
                /\ d_dest' = e.str
                /\ d_di' = Len(e.str)
                /\ cw_enc' = first
                /\ rd_log' = log
                /\ pc' = "d_loop"
                /\ UNCHANGED <<cvars, d_src, d_len, substr_ch, dlen>>

\* Lines 148-169: the table grows if it is full, the entry is stored at
\* dict_next, and the loop moves on.  emitted are the bytes the iteration
\* copied to dest, entry is substr_ch, enc the new cw_enc.
Advance(cw, emitted, entry, enc, log) ==
    LET grow  == NeedsGrow(dict_next, dict_size)
        size2 == IF grow THEN dict_size * 2 ELSE dict_size
        d2    == IF grow THEN GrownDict(dict) ELSE dict
        dl2   == IF grow
                 THEN ZeroLens(GrownDict(dict_lens), dict_next, size2 - dict_next)
                 ELSE dict_lens
    IN  /\ d_dest' = d_dest \o emitted
        /\ d_di' = d_di + Len(emitted)
        /\ cw_enc' = enc
        /\ substr_ch' = entry
        /\ dict_size' = size2
        /\ dict' = Store(d2, dict_next, entry)
        /\ dict_lens' = Store(dl2, dict_next, Len(entry))
        /\ dict_next' = dict_next + 1
        /\ cw_prev' = cw
        /\ d_i' = d_i + 1
        /\ rd_log' = log
        /\ UNCHANGED <<pc, cvars, d_src, d_len, dest_len, dlen>>

\* One iteration of the while loop, lines 122-170.  In the known branch
\* dict[cw] is copied to dest and its first byte dict[cw][0] is read
\* through the pointer; dict[cw_prev] is copied to substr_ch.  In the
\* exception branch dict[cw_enc] is copied to substr_ch and substr_ch[0]
\* is repeated: after a copy of zero bytes that is the byte the buffer
\* held before, or an uninitialised one.
DecStep ==
    /\ pc = "d_loop"
    /\ d_i < d_len
    /\ LET cw == d_src[d_i]
       IN  IF IsKnown(cw, dict_next)
           THEN LET log == [branch |-> "known", cw |-> cw, next |-> dict_next,
                            reads |-> {cw, cw_prev},
                            assigned |-> {cw, cw_prev} \subseteq DOMAIN dict]
                    e   == EntryRead(dict, dict_lens, cw)
                    p   == EntryRead(dict, dict_lens, cw_prev)
                IN  IF \/ cw \notin DOMAIN dict
                       \/ ~Fits(d_di, Len(e.str), dest_len)
                       \/ ~p.def
                    THEN Undefined(log)
                    ELSE Advance(cw, e.str, KnownEntry(p.str, e.str[1]), cw, log)
           ELSE LET log == [branch |-> "exception", cw |-> cw, next |-> dict_next,
                            reads |-> {cw_enc},
                            assigned |-> cw_enc \in DOMAIN dict]
                    q   == EntryRead(dict, dict_lens, cw_enc)
                IN  IF \/ ~q.def
                       \/ (q.str = <<>> /\ substr_ch = <<>>)
                       \/ ~Fits(d_di, Len(q.str) + 1, dest_len)
                    THEN Undefined(log)
                    ELSE LET b == IF q.str # <<>> THEN q.str[1] ELSE substr_ch[1]
                         IN  Advance(cw, Append(q.str, b), Append(q.str, b),
                                     dict_next, log)

\* Lines 172-182 once the loop is over: the cleanup loop runs i from 1 up
\* to dict_next, the dictionary is freed, and the bytes and their count di
\* are returned.
DecFinish ==
    /\ pc = "d_loop"
    /\ d_i >= d_len
    /\ d_i' = dict_next
    /\ dlen' = d_di
    /\ dict' = NoArray
    /\ dict_lens' = NoArray
    /\ pc' = "d_done"
    /\ UNCHANGED <<cvars, d_src, d_len, dict_size, dict_next, cw_prev, cw_enc,
                   substr_ch, d_di, d_dest, dest_len, rd_log>>

(* --------------------------- specifications --------------------------- *)

NoLog == [branch |-> "none", cw |-> 0, next |-> 0, reads |-> {}, assigned |-> TRUE]

\* lzw_decompress has not been entered.
DecIdle ==
    /\ dict_size = 0
    /\ dict_next = 0
    /\ dict = NoArray
    /\ dict_lens = NoArray
    /\ cw_prev = 0
    /\ cw_enc = 0
    /\ substr_ch = <<>>
    /\ d_i = 0
    /\ d_di = 0
    /\ d_dest = <<>>
    /\ dest_len = 0
    /\ dlen = -1
    /\ rd_log = NoLog

\* lzw_compress is entered with a buffer (any buffer over Bytes up to
\* MaxLen bytes, and every one-byte buffer): lines 40-56.  Its result is
\* then handed to lzw_decompress.
Init ==
    /\ pc = "c_scan"
    /\ c_src \in SeqsUpTo(Bytes, MaxLen) \cup {<<x>> : x \in 0..255}
    /\ c_len = Len(c_src)
    /\ c_dict = InitialTrie
    /\ substr = <<>>
    /\ c_i = 0
    /\ c_di = 1
    /\ c_dest = NoArray
    /\ put_log = <<>>
    /\ emit_log = <<>>
    /\ d_src = NoArray
    /\ d_len = 0
    /\ DecIdle

Next == CompressStep \/ CompressLast \/ DecStart \/ DecStep \/ DecFinish

Spec == Init /\ [][Next]_vars

\* The streams handed to lzw_decompress directly: a length codeword and
\* one to MaxStream content codewords, well-formed or not.
FreeStreams ==
    {[j \in 0..Len(s) |-> IF j = 0 THEN h ELSE s[j]] :
        h \in StreamHeaders, s \in SeqsUpTo(StreamCodes, MaxStream) \ {<<>>}}

\* A well-formed stream of LongCount literal codewords, long enough to fill
\* the dictionary twice.
LongStream == [j \in 0..LongCount |-> IF j = 0 THEN LongCount ELSE 98]

\* lzw_decompress is entered with a stream of its caller's.
InitStream ==
    /\ pc = "d_start"
    /\ d_src \in FreeStreams \cup {LongStream}
    /\ d_len = Cardinality(DOMAIN d_src)
    /\ c_src = <<>>
    /\ c_len = 0
    /\ c_dict = trie_init
    /\ substr = <<>>
    /\ c_i = 0
    /\ c_di = 0
    /\ c_dest = NoArray
    /\ put_log = <<>>
    /\ emit_log = <<>>
    /\ DecIdle

NextStream == DecStart \/ DecStep \/ DecFinish

SpecStream == InitStream /\ [][NextStream]_vars

(* ------------------------------- claims ------------------------------- *)

\* The input buffer is not empty.
NonEmpty == c_len > 0

\* C1: Round-trip.  For every buffer B, the empty one included, decoding
\* the stream lzw_compress wrote for B, with the count it returned, ends
\* normally and yields exactly the bytes of B.
C1_RoundTrip ==
    pc \in {"d_done", "undefined"} =>
        /\ pc = "d_done"
        /\ dlen = c_len
        /\ SubSeq(d_dest, 1, dlen) = c_src

\* The last dictionary read of lzw_decompress was of a codeword that cannot
\* exist yet: a first content codeword >= 257, or a later codeword strictly
\* greater than dict_next when it was read.
SkippedAhead ==
    \/ rd_log.branch = "first" /\ rd_log.cw >= 257
    \/ rd_log.branch = "exception" /\ rd_log.cw > rd_log.next

\* C2: Corruption detection.  A codeword that skips ahead ends the call in
\* the CorruptStream outcome; it is not decoded as the KwKwK case and leads
\* to no read of an unassigned slot.
C2_CorruptionDetected ==
    SkippedAhead => (pc = "corrupt_stream" /\ rd_log.assigned)

\* C3: Codeword bound.  For a buffer of length N (N = 0 included) the count
\* lzw_compress returns is at most N+1 and no index of dest above N is
\* written.
C3_CodewordBound ==
    /\ \A j \in DOMAIN c_dest : j <= c_len
    /\ pc # "c_scan" => c_di <= c_len + 1

\* C4: Single-byte encoding.  For every byte x in 0..255 the one-byte
\* buffer [x] compresses to count 2 and the stream [1, x]: the length
\* codeword 1, then the codeword equal to the byte value.
C4_SingleByteIsByteValue ==
    (c_len = 1 /\ pc # "c_scan") =>
        /\ c_di = 2
        /\ c_dest = [j \in 0..1 |-> IF j = 0 THEN 1 ELSE c_src[1]]

\* C5: Length agreement.  For a stream lzw_compress produced, the call of
\* lzw_decompress stays defined, the byte count it returns equals the
\* length codeword src[0], and the bytes written never exceed the src[0]+1
\* bytes allocated for dest.
C5_LengthAgreement ==
    /\ pc # "undefined"
    /\ pc \in {"d_loop", "d_done"} => d_di <= dest_len
    /\ pc = "d_done" => dlen = d_src[0]

\* C7: Encoder/decoder dictionary agreement.  For a non-empty buffer, when
\* the decoder has processed k content codewords (k = i - 1) it holds k-1
\* dynamic entries, dict_next = 257 + k - 1, never more than the compressor
\* inserted, and each of them (bytes and length) is the string the
\* compressor inserted under the same codeword.
C7_DictionaryAgreement ==
    (NonEmpty /\ pc = "d_loop") =>
        /\ dict_next = 257 + (d_i - 1) - 1
        /\ Len(put_log) = d_len - 2
        /\ dict_next - 257 <= Len(put_log)
        /\ \A c \in 257..(dict_next - 1) :
              /\ c \in DOMAIN dict
              /\ put_log[c - 256].cw = c
              /\ dict[c] = put_log[c - 256].str
              /\ dict_lens[c] = Len(put_log[c - 256].str)

\* C8: Candidate in dictionary.  For every buffer, the empty one included,
\* each codeword lzw_compress writes to dest[1..] is the codeword of a
\* string present in the dictionary, never the "not found" value.
C8_CandidateInDictionary ==
    \A k \in 1..Len(emit_log) : emit_log[k].found /\ emit_log[k].cw # 0

\* C9: Indexed-dictionary growth.  For any stream, an iteration whose
\* accesses are defined stores its entry at index dict_next, below the
\* capacity; the capacity changes only by doubling, exactly when
\* dict_next = dict_size before the store (257 becomes 514 at the first
\* store); and every entry assigned before keeps its bytes and its length.
C9_DictionaryGrowth ==
    [][ (pc = "d_loop" /\ pc' = "d_loop") =>
          /\ dict_next' = dict_next + 1
          /\ DOMAIN dict = 1..(dict_next - 1)
          /\ dict_next \in DOMAIN dict'
          /\ dict_next < dict_size'
          /\ dict_size' = IF dict_next = dict_size THEN 2 * dict_size ELSE dict_size
          /\ dict_next = 257 => (dict_size = 257 /\ dict_size' = 514)
          /\ \A c \in DOMAIN dict :
                /\ c \in DOMAIN dict'
                /\ dict'[c] = dict[c]
                /\ c \in DOMAIN dict_lens'
                /\ dict_lens'[c] = dict_lens[c] ]_vars

\* The dictionary has doubled twice and an entry sits in the new half.
C9_Witness ==
    /\ pc = "d_loop"
    /\ dict_size = 1028
    /\ 514 \in DOMAIN dict

\* C10: Reads of assigned entries.  For a non-empty buffer, every
\* dictionary read of lzw_decompress is of an assigned entry, the exception
\* branch is entered only with cw = dict_next, the call stays defined, and
\* cw_enc = cw_prev at the head of every iteration.
C10_ReadsAssigned ==
    NonEmpty =>
        /\ pc # "undefined"
        /\ rd_log.assigned
        /\ rd_log.branch = "exception" => rd_log.cw = rd_log.next
        /\ pc = "d_loop" => cw_enc = cw_prev

=============================================================================
